---------------------------- MODULE Spec2Model ----------------------------
(***************************************************************************)
(* A model of the EC2 driver saltcloud/clouds/ec2.py.                      *)
(*                                                                         *)
(* Spec      : the lifecycle operations and the provisioning workflow as   *)
(*             a state machine.  Every provider query is one step; the     *)
(*             provider's answer to it is chosen with \E.  The Python call *)
(*             stack is the variable stack, an exception unwinds it.       *)
(*             Operations follow each other without bound; the histories   *)
(*             cover the running operation and the one before it.          *)
(* SpecQuery : the request dispatcher query() applied to one HTTP          *)
(*             response drawn from a bounded set of XML trees.             *)
(* SpecCall  : one function of the driver applied to arguments drawn from  *)
(*             a bounded set, up to its return, its raise or its first     *)
(*             provider call.                                              *)
(***************************************************************************)
EXTENDS Integers, Sequences, FiniteSets, TLC

VARIABLES
    pc,        \* position of the running routine ("idle" between operations)
    stack,     \* the Python call stack: names of the active routines
    opts,      \* configuration values the running operation has read
    loc,       \* local variables of the active routines, and their counters
    insts,     \* the provider's instances
    calls,     \* history: the provider calls of this operation that change a resource
    last,      \* history: the running or last operation and how it ended
    prev,      \* history: the operation before it, with its calls
    faults,    \* history: the provider answered with an error or stale data
    qin,       \* SpecQuery: the HTTP response and the arguments of query
    qout,      \* SpecQuery: what query returned
    fin,       \* SpecCall: the function called and its arguments
    fout       \* SpecCall: what the function returned, raised or went on to

vars == <<pc, stack, opts, loc, insts, calls, last, prev, faults, qin, qout, fin, fout>>

----------------------------------------------------------------------------
(* Bounds of the model *)

\* queries of one run of __query_ip_address the model follows
MaxIpQueries == 6
\* calls of the update callback by wait_for_ip the model follows
MaxWaits == 2
\* volumes in the argument of create_attach_volumes
MaxVolumes == 2

(* Program constants *)

\* create, __query_ip_address, set_tags, create_attach_volumes: attempts = 5
PollAttempts == 5
\* _get_node: attempts = 10
GetNodeAttempts == 10
\* sleep(5 * (5-attempts)): the factor and the minuend
SleepUnit == 5
SleepBase == 5

----------------------------------------------------------------------------
(* The provider *)

\* one instance slot: the instance named VmName, or the one create launches
Ids == {"i-1"}
NewId == "i-1"
\* the logical VM name every operation of the model is given
VmName == "vm"
\* the name rename() gives in destroy: '{0}-DEL{1}'.format(name, uuid)
DelName == "vm-DEL"
NoTag == "none"
NoId == "none"

NoInst == [exists |-> FALSE, name |-> NoTag, protect |-> FALSE, terminated |-> FALSE]

\* _extract_name_tag: the Name tag, or the instance id when there is no tag set
ExtractNameTag(i) == IF insts[i].name = NoTag THEN i ELSE insts[i].name

\* _list_nodes_full builds ret[name] = item for every instance of the answer
ListLookup(name) ==
    IF \E i \in Ids : insts[i].exists /\ ExtractNameTag(i) = name
    THEN CHOOSE i \in Ids : insts[i].exists /\ ExtractNameTag(i) = name
    ELSE NoId

----------------------------------------------------------------------------
(* Control state *)

Exceptions == {"SaltCloudSystemExit", "SaltCloudConfigError", "KeyError", "IndexError",
               "TypeError", "AttributeError", "UnboundLocalError"}

NoOpts == [rename_on_destroy |-> FALSE, ssh_interface |-> "unset", usernames |-> <<>>]

NoLoc == [attempts  |-> 0,        \* the running loop's `attempts`
          d_iid     |-> NoId,     \* destroy: instance_id
          p_iid     |-> NoId,     \* _toggle_term_protect: instance_id
          t_iid     |-> NoId,     \* set_tags: instance_id
          t_val     |-> NoTag,    \* set_tags: tags['Name']
          c_iid     |-> NoId,     \* create: instance_id; create_attach_volumes: kwargs['instance_id']
          data      |-> "none",   \* create: the answer held in data
          waits     |-> 0,        \* wait_for_ip: calls of the update callback
          useridx   |-> 0,        \* create: index of the user being tried
          username  |-> "unbound",\* create: username
          vol       |-> 0,        \* create_attach_volumes: number of the volume handled
          kw_zone   |-> TRUE,     \* create_attach_volumes: 'zone' in kwargs
          delvol    |-> FALSE,    \* create_attach_volumes: delete_volume_on_destroy
          protected |-> "unset",  \* destroy: protected
          lookup    |-> "none",   \* history: how destroy's protection lookup was answered
          rename_on_destroy |-> "unread",  \* destroy: the configured value, once read
          prot0     |-> FALSE,    \* history: VmName's instance was protected at the start
          dpolls    |-> 0,        \* history: descriptor polls of create
          ipolls    |-> 0,        \* history: queries of this run of __query_ip_address
          ntags     |-> 0,        \* history: CreateTags calls of this run of set_tags
          nattach   |-> 0,        \* history: AttachVolume calls for this volume
          readback  |-> "none",   \* history: what get_tags answered last in set_tags
          urlsends  |-> 0,        \* history: requests sent with the URL held in requesturl
          waitfail  |-> "none",   \* history: what wait_for_ip raised
          phase     |-> "none",   \* history: the furthest step of create reached
          delay     |-> 0]        \* history: the delay last slept

\* what is kept of the locals once the operation has ended
Observed(l) ==
    [NoLoc EXCEPT !.protected = l.protected, !.prot0 = l.prot0, !.dpolls = l.dpolls,
                  !.ipolls = l.ipolls, !.ntags = l.ntags, !.nattach = l.nattach,
                  !.waitfail = l.waitfail, !.phase = l.phase, !.delay = l.delay,
                  !.username = l.username, !.data = l.data, !.t_val = l.t_val,
                  !.readback = l.readback, !.rename_on_destroy = l.rename_on_destroy,
                  !.lookup = l.lookup]

\* the routine that called the running one
Caller == IF Len(stack) >= 2 THEN stack[Len(stack) - 1] ELSE "none"
Pop(n) == SubSeq(stack, 1, Len(stack) - n)

\* create line 1049: destroy(vm_['name']) runs inside the handler of the failed wait
InCleanup == Len(stack) >= 2 /\ stack[1] = "create" /\ stack[2] = "destroy"

\* variant of CleanupHandler: what destroy raised leaves create
CleanupHandlerPropagates(exc) == exc

\* create lines 1046-1053: except SaltCloudSystemExit: pass / finally: raise
\* SaltCloudSystemExit(exc.message): whatever destroy raised (or returned, exc
\* = "none"), this is what leaves create
CleanupHandler(exc) == "SaltCloudSystemExit"

NoFaults == [any |-> FALSE, cleanup |-> FALSE]

Prov(i, c, f) ==
    /\ insts' = i
    /\ calls' = c
    /\ faults' = [any |-> faults.any \/ f, cleanup |-> faults.cleanup \/ (f /\ InCleanup)]

Goto(p, l) == pc' = p /\ loc' = l /\ UNCHANGED <<stack, opts, last, prev>>

Jump(p, s, l) == pc' = p /\ stack' = s /\ loc' = l /\ UNCHANGED <<opts, last, prev>>

\* the top-level operation ends: with a return value ("ok", "False", ...) or
\* with the exception that left it
Finish(res, l) ==
    /\ pc' = "idle"
    /\ stack' = <<>>
    /\ loc' = Observed(l)
    /\ last' = [op |-> stack[1], outcome |-> res]
    /\ UNCHANGED <<opts, prev>>

\* an exception propagates through every frame; the only handler on its way
\* is the one of create around the cleanup destroy
Raise(exc, l) == Finish(IF InCleanup THEN CleanupHandler(exc) ELSE exc, l)

Entry(c, i, a) == [call |-> c, id |-> i, arg |-> a, n |-> 0]
\* a call made for volume number n of create_attach_volumes
VolEntry(c, i, a, n) == [call |-> c, id |-> i, arg |-> a, n |-> n]

StartLoc ==
    [NoLoc EXCEPT !.prot0 = ListLookup(VmName) # NoId /\ insts[ListLookup(VmName)].protect]

NoPrev == [op |-> "other", outcome |-> "none", clean |-> TRUE, prot0 |-> FALSE,
           calls |-> <<>>]

\* what the next operation keeps of the one that ends here: a switch of the
\* termination protection, how it ended and its calls; nothing of another one
Summary ==
    IF last.op \in {"enable_term_protect", "disable_term_protect"}
    THEN [op |-> last.op, outcome |-> last.outcome, clean |-> ~faults.any,
          prot0 |-> loc.prot0, calls |-> calls]
    ELSE NoPrev

\* a top-level operation starts: routine s[1] is entered at p with locals l
Start(p, s, l) ==
    /\ pc = "idle"
    /\ pc' = p
    /\ stack' = s
    /\ loc' = l
    /\ opts' = NoOpts
    /\ last' = [op |-> s[1], outcome |-> "running"]
    /\ prev' = Summary
    /\ calls' = <<>>
    /\ faults' = NoFaults
    /\ UNCHANGED <<insts, qin, qout, fin, fout>>

\* a top-level operation is called in the wrong mode, or with a bad
\* configuration, and raises at once
StartRaise(op, exc) ==
    /\ pc = "idle"
    /\ pc' = "idle"
    /\ stack' = <<>>
    /\ loc' = StartLoc
    /\ opts' = NoOpts
    /\ last' = [op |-> op, outcome |-> exc]
    /\ prev' = Summary
    /\ calls' = <<>>
    /\ faults' = NoFaults
    /\ UNCHANGED <<insts, qin, qout, fin, fout>>

----------------------------------------------------------------------------
(* _get_node, lines 1586-1601; list_nodes_full and _list_nodes_full, 1604-1691 *)

ListAnswers == {"ok", "empty", "error", "unreachable"}

\* the node list_nodes_full(...)[name] finds in the answer, NoId for a KeyError
Listed(ans, name) == IF ans = "ok" THEN ListLookup(name) ELSE NoId

\* _get_node returns to its caller, which reads ['instanceId'] of the result:
\* a KeyError when the result is {}
GetNodeReturn(id, l) ==
    IF id = NoId THEN Raise("KeyError", l)
    ELSE IF Caller = "destroy"
         THEN Jump("destroy_term_protect", Pop(1), [l EXCEPT !.d_iid = id, !.attempts = 0])
    ELSE IF Caller = "set_tags"   \* line 1370
         THEN Jump("set_tags_create", Pop(1),
                   [l EXCEPT !.t_iid = id, !.attempts = PollAttempts])
    ELSE \* create_attach_volumes, lines 1179-1188
         IF l.c_iid = NoId /\ ~l.kw_zone
         THEN Goto("get_node", [l EXCEPT !.c_iid = id, !.attempts = GetNodeAttempts])
         ELSE Jump("cav_next", Pop(1),
                   [l EXCEPT !.c_iid = IF l.c_iid = NoId THEN id ELSE l.c_iid,
                             !.kw_zone = TRUE, !.attempts = 0])

\* line 1588: while attempts >= 0, after attempts -= 1
GetNodeAgain(a) == a >= 0

GetNodeQuery ==
    /\ pc = "get_node"
    /\ \E ans \in ListAnswers :
         /\ Prov(insts, calls, ans # "ok")
         /\ IF ans = "unreachable" THEN Raise("AttributeError", loc)
            ELSE IF ans = "error" THEN Raise("SaltCloudSystemExit", loc)
            ELSE IF Listed(ans, VmName) # NoId
                 THEN GetNodeReturn(Listed(ans, VmName), loc)
            ELSE IF GetNodeAgain(loc.attempts - 1)
                 THEN Goto("get_node", [loc EXCEPT !.attempts = @ - 1])
            ELSE GetNodeReturn(NoId, [loc EXCEPT !.attempts = @ - 1])
    /\ UNCHANGED <<qin, qout, fin, fout>>

----------------------------------------------------------------------------
(* show_term_protect, lines 1744-1775 *)

AttrAnswers == {"true", "false", "novalue", "error", "unreachable"}

\* disable_protect: the 'value' of the first item that has one, else False.
\* Iterating the error mapping yields its key 'error', which holds no 'value'.
ShowTermProtect(ans) == IF ans \in {"true", "false"} THEN ans ELSE "False"

AttrFaithful(i) == IF insts[i].protect THEN "true" ELSE "false"

----------------------------------------------------------------------------
(* destroy, lines 1490-1536 *)

StartDestroy ==
    Start("get_node", <<"destroy", "_get_node">>,
          [StartLoc EXCEPT !.attempts = GetNodeAttempts])

\* variant of CallRename: the rename is left out
CallRenameSkipped(l) == Goto("destroy_terminate", l)

\* rename (1468-1487) calls set_tags(name, {'Name': newname}, call='action'),
\* which resolves the instance id by name again
CallRename(l) ==
    Jump("get_node", stack \o <<"rename", "set_tags", "_get_node">>,
         [l EXCEPT !.t_val = DelName, !.attempts = GetNodeAttempts, !.ntags = 0])

\* variant of DestroyDecide: the value of protected is not looked at
DestroyDecideUnguarded(r, l) ==
    IF r THEN CallRename([l EXCEPT !.rename_on_destroy = "true"])
    ELSE Goto("destroy_terminate", [l EXCEPT !.rename_on_destroy = "false"])

\* lines 1506-1530: what destroy does with the value of protected; r is the
\* configured rename_on_destroy
DestroyDecide(r, l) ==
    IF l.protected = "true" THEN Raise("SaltCloudSystemExit", l)
    ELSE IF r THEN CallRename([l EXCEPT !.rename_on_destroy = "true"])
    ELSE Goto("destroy_terminate", [l EXCEPT !.rename_on_destroy = "false"])

DestroyTermProtect ==
    /\ pc = "destroy_term_protect"
    /\ \E ans \in AttrAnswers, r \in BOOLEAN :
         /\ Prov(insts, calls, ans # AttrFaithful(loc.d_iid))
         /\ IF ans = "unreachable" THEN Raise("AttributeError", loc)
            ELSE DestroyDecide(r, [loc EXCEPT !.protected = ShowTermProtect(ans),
                                              !.lookup = ans])
    /\ UNCHANGED <<qin, qout, fin, fout>>

\* destroy returns: to the command line, or into the handler of create
DestroyReturn(l) ==
    IF Len(stack) = 1 THEN Finish("ok", l)
    ELSE Finish(CleanupHandler("none"), l)

TermAnswers == {"ok", "empty", "error", "unreachable"}

DestroyTerminate ==
    /\ pc = "destroy_terminate"
    /\ \E ans \in TermAnswers :
         /\ ans = "ok" => ~insts[loc.d_iid].protect
         /\ Prov(IF ans = "ok" THEN [insts EXCEPT ![loc.d_iid].terminated = TRUE] ELSE insts,
                 Append(calls, Entry("TerminateInstances", loc.d_iid, "")),
                 ans # (IF insts[loc.d_iid].protect THEN "error" ELSE "ok"))
         /\ IF ans = "unreachable" THEN Raise("AttributeError", loc)
            ELSE IF ans = "error" THEN Raise("KeyError", loc)      \* result[0] of a dict
            ELSE IF ans = "empty" THEN Raise("IndexError", loc)    \* result[0] of []
            ELSE DestroyReturn(loc)
    /\ UNCHANGED <<qin, qout, fin, fout>>

----------------------------------------------------------------------------
(* enable_term_protect, disable_term_protect, _toggle_term_protect, 1778-1828 *)

ToggleOps == {"enable_term_protect", "disable_term_protect"}

StartToggleTermProtect ==
    \E op \in ToggleOps, c \in {"action", "none"} :
         IF c # "action"
         THEN StartRaise(op, "SaltCloudSystemExit")
         ELSE Start("toggle_list", <<op, "_toggle_term_protect">>, StartLoc)

ToggleList ==
    /\ pc = "toggle_list"
    /\ \E ans \in ListAnswers :
         /\ Prov(insts, calls, ans # "ok")
         /\ IF ans = "unreachable" THEN Raise("AttributeError", loc)
            ELSE IF ans = "error" THEN Raise("SaltCloudSystemExit", loc)
            ELSE IF Listed(ans, VmName) = NoId THEN Raise("KeyError", loc)
            ELSE Goto("toggle_modify", [loc EXCEPT !.p_iid = Listed(ans, VmName)])
    /\ UNCHANGED <<qin, qout, fin, fout>>

\* variant of ToggleValue: both operations send 'true'
ToggleValueAlwaysTrue(op) == "true"

\* 'DisableApiTermination.Value': 'true' for enable, 'false' for disable
ToggleValue(op) == IF op = "enable_term_protect" THEN "true" ELSE "false"

ModAnswers == {"ok", "error", "unreachable"}

ToggleModify ==
    /\ pc = "toggle_modify"
    /\ \E ans \in ModAnswers :
         /\ Prov(IF ans = "ok"
                 THEN [insts EXCEPT ![loc.p_iid].protect = (ToggleValue(stack[1]) = "true")]
                 ELSE insts,
                 Append(calls, Entry("ModifyInstanceAttribute", loc.p_iid,
                                     ToggleValue(stack[1]))),
                 ans # "ok")
         /\ IF ans = "unreachable" THEN Raise("AttributeError", loc)
            ELSE Goto("toggle_show", loc)
    /\ UNCHANGED <<qin, qout, fin, fout>>

ToggleShow ==
    /\ pc = "toggle_show"
    /\ \E ans \in AttrAnswers :
         /\ Prov(insts, calls, ans # AttrFaithful(loc.p_iid))
         /\ IF ans = "unreachable" THEN Raise("AttributeError", loc)
            ELSE Finish(ShowTermProtect(ans), loc)
    /\ UNCHANGED <<qin, qout, fin, fout>>

----------------------------------------------------------------------------
(* set_tags, lines 1356-1415; get_tags, lines 1418-1435 *)

StartSetTags ==
    \E c \in {"action", "none"}, v \in {VmName, DelName},
       i \in {NoId} \cup {j \in Ids : insts[j].exists} :
         IF c # "action" THEN StartRaise("set_tags", "SaltCloudSystemExit")
         ELSE IF i = NoId
         THEN Start("get_node", <<"set_tags", "_get_node">>,
                    [StartLoc EXCEPT !.t_val = v, !.attempts = GetNodeAttempts])
         ELSE Start("set_tags_create", <<"set_tags">>,
                    [StartLoc EXCEPT !.t_val = v, !.t_iid = i, !.attempts = PollAttempts])

\* line 1383: query(params, setname='tagSet', location=location); its result
\* is not looked at.  calls records the first CreateTags of a run of set_tags,
\* ntags counts them all.
SetTagsCreateTags ==
    /\ pc = "set_tags_create"
    /\ \E ans \in ModAnswers :
         /\ Prov(IF ans = "ok" THEN [insts EXCEPT ![loc.t_iid].name = loc.t_val] ELSE insts,
                 IF loc.ntags = 0
                 THEN Append(calls, Entry("CreateTags", loc.t_iid, loc.t_val))
                 ELSE calls,
                 ans # "ok")
         /\ IF ans = "unreachable"
            THEN Raise("AttributeError", [loc EXCEPT !.ntags = @ + 1, !.readback = "none"])
            ELSE Goto("set_tags_readback",
                      [loc EXCEPT !.ntags = @ + 1, !.readback = "none"])
    /\ UNCHANGED <<qin, qout, fin, fout>>

\* what get_tags reads back: the value of the Name tag (NoTag when the tag set
\* holds no Name tag), an error response, or no answer
ReadAnswers == {VmName, DelName, NoTag, "error", "unreachable"}

\* variant of FailedToSetTags: every read-back counts as failed
FailedToSetTagsAlways(read, wanted) == TRUE

\* lines 1391-1400: failed_to_set_tags, for the one requested tag Name
FailedToSetTags(read, wanted) == read # NoTag /\ read # wanted

\* set_tags returns settags: to the command line, to create (line 1055), or
\* to rename called by destroy (line 1521)
SetTagsReturn(l) ==
    IF Len(stack) = 1 THEN Finish("ok", l)
    ELSE IF Caller = "rename"
         THEN Jump("destroy_terminate", Pop(2),
                   [l EXCEPT !.ntags = 0, !.attempts = 0, !.readback = "none"])
    ELSE Jump("create_select_ip", Pop(1),
              [l EXCEPT !.phase = "tagged", !.ntags = 0, !.attempts = 0,
                        !.readback = "none"])

\* line 1382: while attempts >= 0, after attempts -= 1
SetTagsAgain(a) == a >= 0

\* lines 1402-1415: the retry decision after a read-back
SetTagsRetry(failed, l) ==
    IF failed
    THEN IF SetTagsAgain(l.attempts - 1)
         THEN Goto("set_tags_create", [l EXCEPT !.attempts = @ - 1])
         ELSE Raise("SaltCloudSystemExit", [l EXCEPT !.attempts = @ - 1])
    ELSE SetTagsReturn(l)

SetTagsReadBack ==
    /\ pc = "set_tags_readback"
    /\ \E ans \in ReadAnswers :
         LET l1 == [loc EXCEPT !.readback = ans] IN
         /\ Prov(insts, calls, ans # insts[loc.t_iid].name)
         /\ IF ans = "unreachable" THEN Raise("AttributeError", l1)
            ELSE IF ans = "error" THEN Raise("TypeError", l1)   \* tag['key'] of a str
            ELSE SetTagsRetry(FailedToSetTags(ans, loc.t_val), l1)
    /\ UNCHANGED <<qin, qout, fin, fout>>

----------------------------------------------------------------------------
(* ssh_username, lines 599-624 *)

Range(q) == {q[i] : i \in 1..Len(q)}

Builtin == <<"ec2-user", "ubuntu", "admin", "bitnami", "root">>

\* the configured ssh_username, None and empty names filtered out
ConfUsernames == {<<>>, <<"root">>, <<"centos">>, <<"centos", "ubuntu">>}

NotIn(conf, n) == n \notin Range(conf)

SshUsername(conf) == conf \o SelectSeq(Builtin, LAMBDA n : NotIn(conf, n)) \o conf

----------------------------------------------------------------------------
(* create, lines 817-1167 *)
\* The optional pre-launch lookups (availability zone, subnet and security
\* group names) are taken as not configured.

\* what the private_key setting resolves to: nothing, a path that is no file,
\* or a file with the permission mode named
KeyFiles == {"none", "missing", "0400", "0600", "0644"}

\* lines 820-834: the checks create makes before it assembles the launch call
CreateValidate(call, key) ==
    IF call # "none" THEN "SaltCloudSystemExit"                  \* 821
    ELSE IF key = "missing" THEN "SaltCloudConfigError"          \* 829, os.path.isfile
    ELSE "ok"

StartCreate ==
    /\ ~insts[NewId].exists
    /\ \E c \in {"none", "action"}, key \in KeyFiles :
         IF CreateValidate(c, key) # "ok"
         THEN StartRaise("create", CreateValidate(c, key))
         ELSE Start("create_launch", <<"create">>, [StartLoc EXCEPT !.phase = "launching"])

NewInst == [exists |-> TRUE, name |-> NoTag, protect |-> FALSE, terminated |-> FALSE]

\* variant of LaunchError: the launch call is issued again
LaunchErrorRetries(l) == Goto("create_launch", l)

\* lines 955-956: if 'error' in data: return data['error']
LaunchError(l) == Finish("error", l)

\* lines 953-968: the launch call
CreateLaunch ==
    /\ pc = "create_launch"
    /\ \E ans \in ListAnswers :
         /\ Prov(IF ans = "ok" THEN [insts EXCEPT ![NewId] = NewInst] ELSE insts,
                 Append(calls, Entry("RunInstances", NewId, "")),
                 ans # "ok")
         /\ IF ans = "unreachable" THEN Raise("AttributeError", loc)  \* logged, re-raised
            ELSE IF ans = "error" THEN LaunchError(loc)
            ELSE IF ans = "empty" THEN Raise("IndexError", loc)       \* data[0] of []
            ELSE Goto("create_describe",
                      [loc EXCEPT !.c_iid = NewId, !.attempts = PollAttempts,
                                  !.phase = "descriptor"])
    /\ UNCHANGED <<qin, qout, fin, fout>>

\* variant of Delay: the delay shrinks with the attempts that remain
DelayByRemaining(a) == SleepUnit * a

\* sleep(5 * (5-attempts)), attempts already decremented
Delay(a) == SleepUnit * (SleepBase - a)

\* variant of DescribeAgain: one more poll before the loop gives up
DescribeAgainOnceMore(a) == a >= 0

\* line 976: while attempts > 0, after attempts -= 1
DescribeAgain(a) == a > 0

\* lines 1003-1006: the else of the loop formats data['error']; data is the last
\* answer, and [] has no key 'error'
DescribeExhausted(ans) == IF ans = "error" THEN "SaltCloudSystemExit" ELSE "TypeError"

\* lines 980-1002: is the answer one the loop retries on
DescribeRetry(ans) == ans \in {"error", "empty"}

\* lines 975-1006: the descriptor poll
CreateDescribe ==
    /\ pc = "create_describe"
    /\ \E ans \in ListAnswers :
         \* line 977: query signs a new URL, sends it and returns it as requesturl
         LET l1 == [loc EXCEPT !.dpolls = @ + 1, !.data = ans, !.urlsends = 1]
             a  == loc.attempts - 1
             l2 == [l1 EXCEPT !.attempts = a, !.delay = Delay(a)]
         IN
         /\ Prov(insts, calls, ans # "ok")
         /\ IF ans = "unreachable" THEN Raise("AttributeError", l1)
            ELSE IF DescribeRetry(ans)
                 THEN IF DescribeAgain(a) THEN Goto("create_describe", l2)
                      ELSE Raise(DescribeExhausted(ans), l2)
            ELSE \* break; wait_for_ip calls __query_ip_address
                 Goto("create_query_ip",
                      [l1 EXCEPT !.attempts = PollAttempts, !.ipolls = 0, !.waits = 1,
                                 !.phase = "address"])
    /\ UNCHANGED <<qin, qout, fin, fout>>

IpAnswers == {"empty", "error", "unreachable", "noaddr", "public", "private", "both"}

\* variant of HasAddress: every descriptor is taken to carry an address
HasAddressAlways(ans) == TRUE

\* lines 1031-1034: 'ipAddress' in item or 'privateIpAddress' in item
HasAddress(ans) == ans \in {"public", "private", "both"}

\* line 1055: set_tags(vm_['name'], {'Name': vm_['name']}, instance_id=instance_id,
\* call='action', location=location)
CallSetTags(l) ==
    Jump("set_tags_create", <<"create", "set_tags">>,
         [l EXCEPT !.t_iid = l.c_iid, !.t_val = VmName, !.attempts = PollAttempts,
                   !.ntags = 0, !.phase = "tagging", !.dpolls = 0, !.ipolls = 0,
                   !.waits = 0, !.delay = 0, !.urlsends = 0])

\* lines 1012-1026: an empty or an error answer uses up an attempt
IpRetry(l) ==
    LET a == l.attempts - 1 IN
    IF a > 0 THEN Goto("create_query_ip", [l EXCEPT !.attempts = a, !.delay = Delay(a)])
    ELSE \* line 1038: return False
         Goto("wait_ip_failed", [l EXCEPT !.attempts = a, !.delay = Delay(a)])

\* lines 1028-1034 and back to line 1010: a descriptor without an address
\* leaves attempts as it is
IpNoAddress(l) == Goto("create_query_ip", l)

\* the history counts of the address poll: the loop of __query_ip_address has
\* no bound of its own, so beyond MaxIpQueries only the parity of the count of
\* queries is kept, and of the sends of the URL only that there were several
CountOn(n) == IF n < MaxIpQueries THEN n + 1 ELSE MaxIpQueries - 1
SentAgain(n) == IF n < 2 THEN n + 1 ELSE n

\* lines 1008-1038: one query of __query_ip_address
CreateQueryIp ==
    /\ pc = "create_query_ip"
    /\ \E ans \in IpAnswers :
         \* line 1011: query(params, requesturl=url) sends the URL it is given
         LET l1 == [loc EXCEPT !.ipolls = CountOn(@), !.data = ans,
                               !.urlsends = SentAgain(@)] IN
         /\ Prov(insts, calls, ans \in {"empty", "error", "unreachable"})
         /\ IF ans = "unreachable" THEN Raise("AttributeError", l1)
            ELSE IF ans \in {"empty", "error"} THEN IpRetry(l1)
            ELSE IF HasAddress(ans) THEN CallSetTags(l1)
            ELSE IpNoAddress(l1)
    /\ UNCHANGED <<qin, qout, fin, fout>>

\* lines 1046-1049: the handler of the failed wait calls destroy(vm_['name'])
CallCleanup(exc, l) ==
    Jump("get_node", <<"create", "destroy", "_get_node">>,
         [l EXCEPT !.attempts = GetNodeAttempts, !.waitfail = exc, !.phase = "cleanup",
                   !.dpolls = 0, !.ipolls = 0, !.waits = 0, !.delay = 0, !.data = "none",
                   !.urlsends = 0])

\* saltcloud.utils.wait_for_ip after the callback returned False: it calls the
\* callback again, or raises the execution failure or the execution timeout
WaitForIpFailed ==
    /\ pc = "wait_ip_failed"
    /\ \E d \in {"retry", "SaltCloudExecutionFailure", "SaltCloudExecutionTimeout"} :
         /\ d = "retry" => loc.waits < MaxWaits
         /\ IF d = "retry"
            THEN Goto("create_query_ip",
                      [loc EXCEPT !.attempts = PollAttempts, !.ipolls = 0, !.waits = @ + 1])
            ELSE CallCleanup(d, loc)
    /\ UNCHANGED <<insts, calls, faults, qin, qout, fin, fout>>

\* lines 1061-1066: the address field create reads for the configured interface
AddressField(iface) == IF iface = "private_ips" THEN "privateIpAddress" ELSE "ipAddress"

FieldPresent(field, d) ==
    IF field = "privateIpAddress" THEN d \in {"private", "both"} ELSE d \in {"public", "both"}

\* lines 1061-1074: the address is selected, then the deployment is decided on
CreateSelectIp ==
    /\ pc = "create_select_ip"
    /\ \E iface \in {"public_ips", "private_ips"}, ud \in BOOLEAN, dep \in BOOLEAN,
          conf \in ConfUsernames :
         /\ opts' = [opts EXCEPT !.ssh_interface = iface, !.usernames = SshUsername(conf)]
         /\ IF ~FieldPresent(AddressField(iface), loc.data)
            THEN /\ pc' = "idle" /\ stack' = <<>> /\ loc' = Observed(loc)
                 /\ last' = [op |-> stack[1], outcome |-> "KeyError"]
            ELSE /\ pc' = IF ~ud /\ dep THEN "create_wait_ssh" ELSE "create_volumes"
                 /\ loc' = [loc EXCEPT !.phase = "selected", !.data = "none"]
                 /\ UNCHANGED <<stack, last>>
    /\ UNCHANGED <<insts, calls, faults, prev, qin, qout, fin, fout>>

\* line 1075: saltcloud.utils.wait_for_ssh(ip_address); when it is false the
\* loop is skipped and username is read unbound at line 1094
CreateWaitSsh ==
    /\ pc = "create_wait_ssh"
    /\ \E up \in BOOLEAN :
         IF up THEN Goto("create_auth", [loc EXCEPT !.useridx = 1, !.phase = "ssh"])
         ELSE Raise("UnboundLocalError", [loc EXCEPT !.phase = "ssh"])
    /\ UNCHANGED <<insts, calls, faults, qin, qout, fin, fout>>

\* lines 1076-1089: for user in usernames: if wait_for_passwd(...): break
CreateAuth ==
    /\ pc = "create_auth"
    /\ \E authed \in BOOLEAN :
         IF authed
         THEN Goto("create_deploy",
                   [loc EXCEPT !.username = opts.usernames[loc.useridx], !.phase = "auth"])
         ELSE IF loc.useridx < Len(opts.usernames)
         THEN Goto("create_auth", [loc EXCEPT !.useridx = @ + 1])
         ELSE Raise("SaltCloudSystemExit", loc)
    /\ UNCHANGED <<insts, calls, faults, qin, qout, fin, fout>>

\* lines 1091-1141: saltcloud.utils.deploy_script(**deploy_kwargs); its result
\* is logged
CreateDeploy ==
    /\ pc = "create_deploy"
    /\ \E deployed \in BOOLEAN :
         Goto("create_volumes",
              [loc EXCEPT !.phase = "deployed", !.useridx = 0, !.username = "unbound"])
    /\ UNCHANGED <<insts, calls, faults, qin, qout, fin, fout>>

\* lines 1154-1167: if volumes: create_attach_volumes(...); return ret
CreateVolumes ==
    /\ pc = "create_volumes"
    /\ \E hasvol \in BOOLEAN :
         IF hasvol
         THEN Jump("cav_next", <<"create", "create_attach_volumes">>,
                   [loc EXCEPT !.vol = 0, !.phase = "volumes"])
         ELSE Finish("ok", [loc EXCEPT !.phase = "complete"])
    /\ UNCHANGED <<insts, calls, faults, qin, qout, fin, fout>>

----------------------------------------------------------------------------
(* create_attach_volumes, lines 1170-1276; create_volume, 2000-2043;
   attach_volume, 2046-2085; _toggle_delvol, 1965-1998 *)
\* The volumes of the argument are read one by one as the loop reaches them.

StartCreateAttachVolumes ==
    \E c \in {"action", "none"}, i \in {NoId} \cup {j \in Ids : insts[j].exists},
       z \in BOOLEAN :
         IF c # "action" THEN StartRaise("create_attach_volumes", "SaltCloudSystemExit")
         ELSE IF i = NoId \/ ~z
         THEN Start("get_node", <<"create_attach_volumes", "_get_node">>,
                    [StartLoc EXCEPT !.c_iid = i, !.kw_zone = z,
                                     !.attempts = GetNodeAttempts])
         ELSE Start("cav_next", <<"create_attach_volumes">>, [StartLoc EXCEPT !.c_iid = i])

\* line 1210: create_volume is called for a volume that brings no volume_id
NeedsCreateVolume(hasid) == ~hasid

IsVolEntry(e) == e.n # 0

\* line 1191: for volume in volumes.  calls keeps the calls made for the volume
\* at hand: those of the volume before are dropped when the next one is taken.
CavNext ==
    /\ pc = "cav_next"
    /\ \E more \in BOOLEAN, hasid \in BOOLEAN :
         /\ more => loc.vol < MaxVolumes
         /\ (Caller = "create" /\ loc.vol = 0) => more
         /\ IF ~more
            THEN Finish("ok", [loc EXCEPT !.phase = "complete"]) /\ UNCHANGED calls
            ELSE /\ calls' = SelectSeq(calls, LAMBDA e : ~IsVolEntry(e))
                 /\ IF NeedsCreateVolume(hasid)
                    THEN Goto("cav_create_volume",
                              [loc EXCEPT !.vol = @ + 1, !.nattach = 0])
                    ELSE Goto("cav_attach",
                              [loc EXCEPT !.vol = @ + 1, !.nattach = 0,
                                          !.attempts = PollAttempts])
    /\ UNCHANGED <<insts, faults, qin, qout, fin, fout>>

\* lines 1210-1214: created_volume = create_volume(volume_dict, call='function');
\* an answer without a volumeId leaves volume_dict['volume_id'] unset (1221)
CavCreateVolume ==
    /\ pc = "cav_create_volume"
    /\ \E ans \in ListAnswers :
         /\ Prov(insts, Append(calls, VolEntry("CreateVolume", loc.c_iid, "", loc.vol)),
                 ans # "ok")
         /\ IF ans = "unreachable" THEN Raise("AttributeError", loc)
            ELSE IF ans = "ok"
                 THEN Goto("cav_attach", [loc EXCEPT !.attempts = PollAttempts])
            ELSE Raise("KeyError", loc)
    /\ UNCHANGED <<qin, qout, fin, fout>>

\* lines 1260-1266: delete_volume_on_destroy, from the volume's delvol_on_destroy
DeleteVolumeOnDestroy(dv) == IF dv = "absent" THEN TRUE ELSE dv = "true"

\* lines 1217-1274: one attempt of the attach loop
CavAttach ==
    /\ pc = "cav_attach"
    /\ \E ans \in ListAnswers, dv \in {"absent", "true", "false"} :
         LET l1 == [loc EXCEPT !.nattach = @ + 1, !.data = ans]
             a  == loc.attempts - 1
             l2 == [l1 EXCEPT !.attempts = a, !.delay = Delay(a)]
         IN
         /\ Prov(insts, calls, ans # "ok")
         /\ IF ans = "unreachable" THEN Raise("AttributeError", l1)
            ELSE IF ans = "error"
                 THEN IF a > 0 THEN Goto("cav_attach", l2)
                      ELSE Raise("SaltCloudSystemExit", l2)
            ELSE IF ans = "empty" THEN Raise("TypeError", l1)  \* data['error'] of [], 1242
            ELSE IF DeleteVolumeOnDestroy(dv)
                 THEN Goto("cav_modify",
                           [l1 EXCEPT !.delvol = TRUE, !.attempts = 0, !.delay = 0,
                                      !.data = "none"])
            ELSE Goto("cav_next", [l1 EXCEPT !.attempts = 0, !.delay = 0, !.data = "none"])
    /\ UNCHANGED <<qin, qout, fin, fout>>

\* _toggle_delvol, lines 1991-1996: the ModifyInstanceAttribute call
CavModify ==
    /\ pc = "cav_modify"
    /\ \E ans \in ModAnswers :
         /\ Prov(insts,
                 Append(calls, VolEntry("ModifyInstanceAttribute", loc.c_iid,
                                        "DeleteOnTermination", loc.vol)),
                 ans # "ok")
         /\ IF ans = "unreachable" THEN Raise("AttributeError", loc)
            ELSE Goto("cav_describe", loc)
    /\ UNCHANGED <<qin, qout, fin, fout>>

\* _toggle_delvol, line 1998: return describe_instance(instance_id=..., call='action')
CavDescribe ==
    /\ pc = "cav_describe"
    /\ \E ans \in ListAnswers :
         /\ Prov(insts, calls, ans # "ok")
         /\ IF ans = "unreachable" THEN Raise("AttributeError", loc)
            ELSE Goto("cav_next", [loc EXCEPT !.delvol = FALSE])
    /\ UNCHANGED <<qin, qout, fin, fout>>

----------------------------------------------------------------------------
(* The specification of the operations *)

NoQ == [status |-> "none"]
NoResult == [kind |-> "none"]
NoCall == [fn |-> "none"]
NoOut == [kind |-> "none", value |-> "none"]

OldInsts ==
    {NoInst} \cup {[exists |-> TRUE, name |-> VmName, protect |-> p, terminated |-> FALSE] :
                   p \in BOOLEAN}

Init ==
    /\ pc = "idle"
    /\ stack = <<>>
    /\ opts = NoOpts
    /\ loc = NoLoc
    /\ insts \in {[i \in Ids |-> o] : o \in OldInsts}
    /\ calls = <<>>
    /\ last = [op |-> "none", outcome |-> "none"]
    /\ prev = NoPrev
    /\ faults = NoFaults
    /\ qin = NoQ
    /\ qout = NoResult
    /\ fin = NoCall
    /\ fout = NoOut

Next ==
    \/ StartDestroy
    \/ GetNodeQuery
    \/ DestroyTermProtect
    \/ DestroyTerminate
    \/ StartToggleTermProtect
    \/ ToggleList
    \/ ToggleModify
    \/ ToggleShow
    \/ StartSetTags
    \/ SetTagsCreateTags
    \/ SetTagsReadBack
    \/ StartCreate
    \/ CreateLaunch
    \/ CreateDescribe
    \/ CreateQueryIp
    \/ WaitForIpFailed
    \/ CreateSelectIp
    \/ CreateWaitSsh
    \/ CreateAuth
    \/ CreateDeploy
    \/ CreateVolumes
    \/ StartCreateAttachVolumes
    \/ CavNext
    \/ CavCreateVolume
    \/ CavAttach
    \/ CavModify
    \/ CavDescribe

Spec == Init /\ [][Next]_vars

\* the program is one thread that takes its next step whenever the call it
\* waits for has returned
SpecLive == Spec /\ WF_vars(Next)

----------------------------------------------------------------------------
(* _xml_to_dict, lines 203-241 *)
\* An element is [ns, tag, text, kids]: ns tells whether the tag is written
\* '{namespace}tag'.  A decoded node is a leaf [k |-> "leaf", v], a mapping
\* [k |-> "map", m] or a sequence [k |-> "list", items].

El(tag, text, kids) == [ns |-> TRUE, tag |-> tag, text |-> text, kids |-> kids]
Leaf(v) == [k |-> "leaf", v |-> v]
Map(m) == [k |-> "map", m |-> m]
List(items) == [k |-> "list", items |-> items]
EmptyMap == Map([x \in {} |-> Leaf("")])

RECURSIVE XmlToDict(_)
RECURSIVE XmlFold(_, _, _)

\* variant of XmlPut: a further occurrence is put in front of the earlier ones
XmlPutInFront(d, item) ==
    IF item.tag \notin DOMAIN d.m
    THEN Map(d.m @@ (item.tag :> IF Len(item.kids) > 0 THEN XmlToDict(item)
                                  ELSE Leaf(item.text)))
    ELSE LET old == d.m[item.tag]
             lst == IF old.k = "list" THEN old.items ELSE <<old>>
         IN Map([d.m EXCEPT ![item.tag] = List(<<XmlToDict(item)>> \o lst)])

\* lines 220-240: one child is entered in xmldict
XmlPut(d, item) ==
    IF item.tag \notin DOMAIN d.m
    THEN Map(d.m @@ (item.tag :> IF Len(item.kids) > 0 THEN XmlToDict(item)
                                  ELSE Leaf(item.text)))
    ELSE LET old == d.m[item.tag]
             lst == IF old.k = "list" THEN old.items ELSE <<old>>
         IN Map([d.m EXCEPT ![item.tag] = List(Append(lst, XmlToDict(item)))])

XmlFold(kids, i, d) ==
    IF i > Len(kids) THEN d ELSE XmlFold(kids, i + 1, XmlPut(d, kids[i]))

XmlToDict(x) ==
    IF Len(x.kids) < 1 THEN Map(x.tag :> Leaf(x.text))
    ELSE XmlFold(x.kids, 1, EmptyMap)

----------------------------------------------------------------------------
(* query, lines 244-402: the response side *)

\* the result of a call: a mapping, a list of decoded nodes, or an exception;
\* url is the second component when the pair (result, requesturl) is returned
Returned(kind, m, items, url) ==
    [kind |-> kind, m |-> m, items |-> items, url |-> url, exc |-> "none"]
Raised(exc) ==
    [kind |-> "raise", m |-> EmptyMap.m, items |-> <<>>, url |-> "none", exc |-> exc]

NoSet == "none"

\* lines 390-393: the children of root whose tag is setname, by index
RECURSIVE SetMatches(_, _, _)
SetMatches(root, setname, i) ==
    IF i > Len(root.kids) THEN {}
    ELSE (IF root.kids[i].tag = setname THEN {i} ELSE {}) \cup SetMatches(root, setname, i + 1)

Max(S) == CHOOSE x \in S : \A y \in S : y <= x

\* lines 379-393: the element whose children are returned
QueryItems(root, setname, return_root) ==
    LET first == IF return_root THEN root ELSE root.kids[2]
        hits  == IF setname = NoSet THEN {} ELSE SetMatches(root, setname, 1)
    IN IF hits = {} THEN first ELSE root.kids[Max(hits)]

\* variant of QueryError: the failed request is raised to the caller
QueryErrorRaises(body, url, return_url) == Raised("HTTPError")

\* lines 363-374: the handler of the failed request
QueryError(body, url, return_url) ==
    Returned("mapping", "error" :> XmlToDict(body), <<>>,
             IF return_url THEN url ELSE "none")

\* lines 356-402
Query(q) ==
    IF q.status = "unreachable" THEN Raised("AttributeError")   \* exc.code of a URLError
    ELSE IF q.status = "non2xx" THEN QueryError(q.body, q.url, q.return_url)
    ELSE IF Len(q.body.kids) < 2 THEN Raised("IndexError")       \* items = root[1]
    ELSE IF q.setname # NoSet /\ \E i \in 1..Len(q.body.kids) : ~q.body.kids[i].ns
         THEN Raised("IndexError")                               \* comps[1]
    ELSE LET items == QueryItems(q.body, q.setname, q.return_root) IN
         Returned("list", EmptyMap.m,
                  [i \in 1..Len(items.kids) |-> XmlToDict(items.kids[i])],
                  IF q.return_url THEN q.url ELSE "none")

----------------------------------------------------------------------------
(* The responses query is applied to *)

ErrorBody ==
    El("Response", "",
       <<El("Errors", "", <<El("Error", "", <<El("Code", "InvalidInstanceID", <<>>),
                                               El("Message", "not found", <<>>)>>)>>),
         El("RequestID", "r-1", <<>>)>>)

InstanceItem(fields) ==
    El("item", "", <<El("reservationId", "r-1", <<>>),
                     El("instancesSet", "", <<El("item", "", fields)>>)>>)

DescribeBody(n) ==
    El("DescribeInstancesResponse", "",
       <<El("requestId", "q-1", <<>>),
         El("reservationSet", "",
            [i \in 1..n |-> InstanceItem(<<El("instanceId", "i-1", <<>>),
                                           El("ipAddress", "10.0.0.1", <<>>)>>)])>>)

TagItem(key, value) == El("item", "", <<El("key", key, <<>>), El("value", value, <<>>)>>)

TagsBody ==
    El("DescribeTagsResponse", "",
       <<El("requestId", "q-1", <<>>),
         El("tagSet", "", <<TagItem("Name", "vm"), TagItem("role", "web")>>)>>)

AttrBody ==
    El("DescribeInstanceAttributeResponse", "",
       <<El("requestId", "q-1", <<>>), El("instanceId", "i-1", <<>>),
         El("disableApiTermination", "", <<El("value", "true", <<>>)>>)>>)

\* a response whose root has n childless children
FlatBody(n) == El("Response", "", [i \in 1..n |-> El("requestId", "q-1", <<>>)])

\* a response whose elements carry no namespace
BareBody ==
    [ns |-> FALSE, tag |-> "Response", text |-> "",
     kids |-> <<[ns |-> FALSE, tag |-> "requestId", text |-> "q-1", kids |-> <<>>],
                [ns |-> FALSE, tag |-> "tagSet", text |-> "", kids |-> <<>>]>>]

Bodies ==
    {ErrorBody, DescribeBody(0), DescribeBody(1), DescribeBody(2), TagsBody, AttrBody,
     FlatBody(0), FlatBody(1), BareBody}

SetNames == {NoSet, "instancesSet", "tagSet"}

QInputs ==
    [status : {"2xx", "non2xx", "unreachable"}, body : Bodies, setname : SetNames,
     return_url : BOOLEAN, return_root : BOOLEAN, url : {"https://ec2/?Signature=s1"}]

InitQuery ==
    /\ pc = "idle"
    /\ stack = <<>>
    /\ opts = NoOpts
    /\ loc = NoLoc
    /\ insts = [i \in Ids |-> NoInst]
    /\ calls = <<>>
    /\ last = [op |-> "none", outcome |-> "none"]
    /\ prev = NoPrev
    /\ faults = NoFaults
    /\ qin \in QInputs
    /\ qout = NoResult
    /\ fin = NoCall
    /\ fout = NoOut

\* query is called on the response and returns
QueryCall ==
    /\ qout.kind = "none"
    /\ qout' = Query(qin)
    /\ UNCHANGED <<pc, stack, opts, loc, insts, calls, last, prev, faults, qin, fin, fout>>

NextQuery == QueryCall

SpecQuery == InitQuery /\ [][NextQuery]_vars

----------------------------------------------------------------------------
(* Properties of the operations (Spec) and of the dispatcher (SpecQuery) *)

\* the positions in the history q of the provider calls named c
CallsOf(c, q) == {i \in 1..Len(q) : q[i].call = c}

\* a read-back that holds the requested tag with another value
Mismatch(read, wanted) == read \in {VmName, DelName} /\ read # wanted

\* C1: a destroy that is told 'true' by the termination-protection lookup ends
\* at once with SaltCloudSystemExit, and no TerminateInstances call is issued.
ProtectedDestroyRefused ==
    loc.protected = "true" =>
        /\ pc = "idle"
        /\ last.outcome = "SaltCloudSystemExit"
        /\ CallsOf("TerminateInstances", calls) = {}

\* a destroy of a protected instance, answered faithfully, has been refused
ProtectedDestroyRefusedWitness ==
    /\ pc = "idle" /\ last.op = "destroy" /\ last.outcome = "SaltCloudSystemExit"
    /\ loc.protected = "true" /\ loc.prot0 /\ ~faults.any

\* the preceding operation was a disable_term_protect on the protected
\* instance that returned, and the provider answered it and the destroy that
\* has now ended faithfully
DisabledThenDestroyed ==
    /\ pc = "idle" /\ last.op = "destroy" /\ ~faults.any
    /\ prev.op = "disable_term_protect" /\ prev.prot0 /\ prev.clean
    /\ prev.outcome \notin Exceptions

\* C2: for a protected instance, disable_term_protect followed by destroy
\* issues exactly one TerminateInstances call, and the operation before it
\* issued the ModifyInstanceAttribute call that set DisableApiTermination to
\* 'false' on the same instance.
OneTerminateAfterDisable ==
    DisabledThenDestroyed =>
        /\ last.outcome = "ok"
        /\ Cardinality(CallsOf("TerminateInstances", calls)) = 1
        /\ \E i \in CallsOf("ModifyInstanceAttribute", prev.calls),
              j \in CallsOf("TerminateInstances", calls) :
                 /\ prev.calls[i].arg = "false"
                 /\ prev.calls[i].id = calls[j].id

\* protection was disabled and the instance then destroyed
OneTerminateAfterDisableWitness ==
    /\ DisabledThenDestroyed
    /\ last.outcome = "ok"
    /\ \A i \in Ids : insts[i].exists => insts[i].terminated /\ ~insts[i].protect

\* C3: for a response with a non-2xx status query returns (it does not raise)
\* a mapping whose only key is 'error', holding the decoded body; the request
\* URL comes with it exactly when return_url is set; it is never a list.
ErrorResponseReturned ==
    (qin.status = "non2xx" /\ qout.kind # "none") =>
        /\ qout.kind = "mapping"
        /\ DOMAIN qout.m = {"error"}
        /\ qout.m["error"] = XmlToDict(qin.body)
        /\ qout.url = (IF qin.return_url THEN qin.url ELSE "none")

\* the provider's error document was returned under 'error', with the URL
ErrorResponseReturnedWitness ==
    /\ qin.status = "non2xx" /\ qin.return_url /\ qin.body = ErrorBody
    /\ qout.kind = "mapping"
    /\ qout.url = qin.url
    /\ qout.m["error"].m["Errors"].m["Error"].m["Message"] = Leaf("not found")

\* C4: one run of create issues at most one RunInstances call, and for each
\* volume create_attach_volumes handles at most one CreateVolume call.
CreatingCallsNotRepeated ==
    /\ Cardinality(CallsOf("RunInstances", calls)) <= 1
    /\ \A n \in 1..(MaxVolumes + 1) :
         Cardinality({i \in CallsOf("CreateVolume", calls) : calls[i].n = n}) <= 1

\* create has launched once, the provider has answered some call with an
\* error, and the second volume has been created
CreatingCallsNotRepeatedWitness ==
    /\ pc = "cav_attach" /\ stack[1] = "create" /\ loc.vol = 2 /\ faults.any
    /\ Cardinality(CallsOf("RunInstances", calls)) = 1
    /\ \E i \in CallsOf("CreateVolume", calls) : calls[i].n = 2

\* C5: the descriptor phase of create issues at most 5 DescribeInstances
\* queries; it is still in the phase only after an error or an empty answer,
\* and it enters the address phase with the first other answer.
DescriptorPollBounded ==
    /\ loc.dpolls <= 5
    /\ (pc = "create_describe" /\ loc.dpolls > 0) => loc.data \in {"error", "empty"}
    /\ (pc = "create_query_ip" /\ loc.waits = 1 /\ loc.ipolls = 0) =>
           loc.data = "ok" /\ loc.dpolls >= 1

\* the fifth poll was the first to bring the descriptor
DescriptorPollBoundedWitness ==
    /\ pc = "create_query_ip" /\ loc.waits = 1 /\ loc.ipolls = 0
    /\ loc.dpolls = 5 /\ loc.data = "ok"

\* C6: when create ends in the descriptor phase after an error or an empty
\* answer (every poll of the phase was answered so), it ends with
\* SaltCloudSystemExit.
DescriptorExhaustionFatal ==
    (/\ pc = "idle" /\ last.op = "create" /\ loc.phase = "descriptor"
     /\ loc.data \in {"error", "empty"})
    => last.outcome = "SaltCloudSystemExit"

\* C7: one run of __query_ip_address issues at most 5 queries, and reports
\* failure once 5 queries were answered without an address.
AddressPollBounded ==
    /\ loc.ipolls <= 5
    /\ pc = "wait_ip_failed" => loc.ipolls = 5

CleanupTerminatesInstance ==
    (pc = "idle" /\ last.op = "create" /\ loc.waitfail # "none" /\ ~faults.cleanup)
    => \E i \in CallsOf("TerminateInstances", calls) : calls[i].id = NewId

\* C10: set_tags issues CreateTags at most 6 times, issues it again only after
\* a read-back that holds the tag with another value, and ends with
\* SaltCloudSystemExit when the read-back after the 6th call does so too.
SetTagsRetriesBounded ==
    /\ loc.ntags <= 6
    /\ (pc = "set_tags_create" /\ loc.ntags > 0) => Mismatch(loc.readback, loc.t_val)
    /\ (pc = "idle" /\ loc.ntags = 6 /\ Mismatch(loc.readback, loc.t_val)) =>
           last.outcome = "SaltCloudSystemExit"

\* set_tags gave up after the 6th CreateTags
SetTagsRetriesBoundedWitness ==
    /\ pc = "idle" /\ last.op = "set_tags" /\ last.outcome = "SaltCloudSystemExit"
    /\ loc.ntags = 6 /\ Mismatch(loc.readback, loc.t_val)

\* the step of create a position belongs to: launch, descriptor polls, address
\* polls, Name tag, address selection, login and authentication, deployment,
\* volumes
CreateStep(p) ==
    CASE p = "create_launch" -> 1
      [] p = "create_describe" -> 2
      [] p \in {"create_query_ip", "wait_ip_failed"} -> 3
      [] p \in {"set_tags_create", "set_tags_readback"} -> 4
      [] p = "create_select_ip" -> 5
      [] p \in {"create_wait_ssh", "create_auth"} -> 6
      [] p = "create_deploy" -> 7
      [] OTHER -> 8

\* create is running, before and after the step, and not in its cleanup
CreateRuns ==
    /\ last.op = "create" /\ pc # "idle"
    /\ last'.op = "create" /\ pc' # "idle"
    /\ loc'.waitfail = "none"

\* C11: create goes through its steps in the order launch, descriptor polls,
\* address polls, Name tag, login and authentication, deployment, leaving out
\* only the login and the deployment (straight to the volumes); CreateTags is
\* issued only once the answer held in data carries an address, and the
\* deployment is entered only from the authentication that follows the return
\* of set_tags.
StepsInOrder ==
    /\ [](last.op = "create" /\ loc.waitfail = "none" /\ CallsOf("CreateTags", calls) # {}
            => /\ pc # "idle" => CreateStep(pc) >= 4
               /\ CreateStep(pc) = 4 => loc.data \in {"public", "private", "both"})
    /\ [][CreateRuns =>
            \/ CreateStep(pc') = CreateStep(pc)
            \/ CreateStep(pc') = CreateStep(pc) + 1
            \/ pc = "create_select_ip" /\ pc' = "create_volumes"]_vars

\* the deployment is about to be called, after the tag was set on the instance
StepsInOrderWitness ==
    /\ pc = "create_deploy" /\ last.op = "create"
    /\ CallsOf("RunInstances", calls) # {} /\ CallsOf("CreateTags", calls) # {}
    /\ insts[NewId].name = VmName

\* C12: the deployment is called with the username that authenticated, and a
\* create that ends in the login step, no username having authenticated, ends
\* with SaltCloudSystemExit 'Failed to authenticate against remote ssh'.
AuthenticationDecidesDeploy ==
    /\ pc = "create_deploy" => loc.username = opts.usernames[loc.useridx]
    /\ (pc = "idle" /\ last.op = "create" /\ loc.phase = "ssh") =>
           last.outcome = "SaltCloudSystemExit"

\* C13: no signed request URL is sent to the provider more than once.
RequestUrlSentOnce == loc.urlsends <= 1

----------------------------------------------------------------------------
(* Functions that check their arguments.  kwargs is the set of the keys given. *)

Ret(v) == [kind |-> "return", value |-> v]
Exc(e) == [kind |-> "raise", value |-> e]
\* the function has passed its checks and issues the provider call
Queries(action) == [kind |-> "query", value |-> action]

\* _require_kwargs, lines 184-200
RequireKwargs(required, kwargs) == \A field \in required : field \in kwargs

\* describe_cluster, lines 3236-3257; line 3250 formats the name req, which
\* the function does not bind
DescribeCluster(call, kwargs) ==
    IF call # "function" THEN Ret("False")
    ELSE IF "cluster-name" \notin kwargs THEN Exc("NameError")
    ELSE Queries("DescribeClusters")

\* create_cluster, lines 3189-3234
ClusterRequired == {"cluster-name", "master-user", "master-pass", "node-type",
                    "paramgroup-name"}

CreateCluster(call, kwargs) ==
    IF call # "function" THEN Ret("False")
    ELSE IF \E req \in ClusterRequired : req \notin kwargs THEN Ret("False")
    ELSE Queries("CreateCluster")

\* create_elb, lines 2308-2416: the return after the zones and subnets check is
\* commented out (2323); kwargs['loadbalancername'] is read at 2330.  The
\* listeners given are well-formed and name no certificate; security groups
\* and subnets are given by id.
CreateElb(call, kwargs) ==
    IF call # "function" THEN Ret("False")
    ELSE IF "listeners" \notin kwargs THEN Ret("False")
    ELSE IF "loadbalancername" \notin kwargs THEN Exc("KeyError")
    ELSE Queries("CreateLoadBalancer")

\* create_volume, lines 2000-2043
CreateVolume(call, kwargs) ==
    IF call # "function" THEN Ret("False")
    ELSE IF "zone" \notin kwargs THEN Ret("False")
    ELSE Queries("CreateVolume")

\* attach_volume, lines 2046-2085: name and iid tell whether the arguments name
\* and instance_id are given, listed whether list_nodes_full() holds the name
AttachVolume(call, name, iid, listed, kwargs) ==
    LET has_id == iid \/ "instance_id" \in kwargs IN
    IF call # "action" THEN Exc("SaltCloudSystemExit")
    ELSE IF name /\ ~has_id /\ ~listed THEN Exc("KeyError")
    ELSE IF ~name /\ ~has_id THEN Ret("False")
    ELSE IF "volume_id" \notin kwargs THEN Ret("False")
    ELSE IF "device" \notin kwargs THEN Ret("False")
    ELSE Queries("AttachVolume")

\* share_snapshot, lines 2188-2200
ShareSnapshot(kwargs) ==
    IF ~RequireKwargs({"snapshot_id", "share_to"}, kwargs) THEN Ret("False")
    ELSE Queries("ModifySnapshotAttribute")

\* the calls of the functions above: the call mode and every set of keys
KwargsCalls(fn, keys) ==
    [fn : {fn}, call : {"function", "action"}, kwargs : SUBSET keys,
     name : {FALSE}, iid : {FALSE}, listed : {FALSE}]

AttachCalls ==
    [fn : {"attach_volume"}, call : {"function", "action"},
     kwargs : SUBSET {"instance_id", "volume_id", "device"},
     name : BOOLEAN, iid : BOOLEAN, listed : BOOLEAN]

CheckedCalls ==
    KwargsCalls("describe_cluster", {"cluster-name", "marker"})
    \cup KwargsCalls("create_cluster", ClusterRequired)
    \cup KwargsCalls("create_elb", {"loadbalancername", "listeners", "zones", "subnets"})
    \cup KwargsCalls("create_volume", {"zone", "size", "snapshot"})
    \cup KwargsCalls("share_snapshot", {"snapshot_id", "share_to"})
    \cup AttachCalls

ApplyChecked(c) ==
    CASE c.fn = "describe_cluster" -> DescribeCluster(c.call, c.kwargs)
      [] c.fn = "create_cluster" -> CreateCluster(c.call, c.kwargs)
      [] c.fn = "create_elb" -> CreateElb(c.call, c.kwargs)
      [] c.fn = "create_volume" -> CreateVolume(c.call, c.kwargs)
      [] c.fn = "share_snapshot" -> ShareSnapshot(c.kwargs)
      [] c.fn = "attach_volume" ->
             AttachVolume(c.call, c.name, c.iid, c.listed, c.kwargs)

\* the call mode the function is meant for
CallMode(fn) == IF fn = "attach_volume" THEN "action" ELSE "function"

\* the fields a call needs, as the functions' messages and the operations'
\* documentation give them; create_elb needs zones or subnets besides
RequiredFields(fn) ==
    CASE fn = "describe_cluster" -> {"cluster-name"}
      [] fn = "create_cluster" -> ClusterRequired
      [] fn = "create_elb" -> {"loadbalancername", "listeners"}
      [] fn = "create_volume" -> {"zone"}
      [] fn = "share_snapshot" -> {"snapshot_id", "share_to"}
      [] fn = "attach_volume" -> {"volume_id", "device"}

FieldMissing(c) ==
    \/ \E f \in RequiredFields(c.fn) : f \notin c.kwargs
    \/ c.fn = "create_elb" /\ "zones" \notin c.kwargs /\ "subnets" \notin c.kwargs

\* C14: a function called in its call mode with a required field absent
\* returns False and does not raise.
MissingFieldReturnsFalse ==
    (/\ fout.kind # "none" /\ fin.fn \in {"describe_cluster", "create_cluster",
                                            "create_elb", "create_volume",
                                            "share_snapshot", "attach_volume"}
     /\ fin.call = CallMode(fin.fn) /\ FieldMissing(fin))
    => fout = Ret("False")

(* The delays of the polling loops (Spec) *)

\* a step of a polling loop in which an attempt failed: the answer was an error
\* or (descriptor and address polls) empty, and the loop took one attempt away
FailedAttempt ==
    \/ /\ pc = "create_describe" /\ loc'.dpolls = loc.dpolls + 1
       /\ loc'.data \in {"error", "empty"}
    \/ /\ pc = "create_query_ip" /\ loc'.ipolls = loc.ipolls + 1
       /\ loc'.data \in {"error", "empty"}
    \/ /\ pc = "cav_attach" /\ loc'.nattach = loc.nattach + 1
       /\ loc'.data = "error"

\* the attempts that remain after the failed attempt
Remaining == loc.attempts - 1

\* C17: in every polling loop with the budget of 5 attempts, the delay slept
\* after a failed attempt that leaves r attempts is 5 * (5 - r) seconds: 5, 10,
\* 15, 20, 25 for r = 4, 3, 2, 1, 0.
DelayGrowsWithFailures ==
    [][FailedAttempt => /\ Remaining \in 0..4
                        /\ loc'.delay = 5 * (5 - Remaining)]_vars

\* the statement as claimed: the delay is 5 * r, that is 20, 15, 10, 5, 0
DelayIsFiveTimesRemaining ==
    [][FailedAttempt => loc'.delay = 5 * Remaining]_vars

\* the address poll has failed five times and slept 25 seconds after the last
DelayGrowsWithFailuresWitness ==
    /\ pc = "wait_ip_failed" /\ loc.phase = "address" /\ loc.attempts = 0
    /\ loc.ipolls >= 5 /\ loc.delay = 25

(* The attach loop of create_attach_volumes (Spec) *)

CreateTerminates == (last.op = "create" /\ pc # "idle") ~> (pc = "idle")

(* The read-back of set_tags (Spec) *)

\* C26: set_tags returns only when the tag set read back holds the requested
\* tag with the requested value; a read-back without the tag is not a success.
ReturnsOnlyVerified ==
    (pc = "idle" /\ last.op = "set_tags" /\ last.outcome = "ok")
    => loc.readback = loc.t_val

(* The protection lookup of destroy (Spec) *)

\* C28: TerminateInstances is issued only after a protection lookup that was
\* answered without an error and did not report the protection as enabled; after
\* an error response to the lookup no TerminateInstances call is issued.
TerminateOnlyAfterLookup ==
    CallsOf("TerminateInstances", calls) # {} => loc.lookup \in {"false", "novalue"}

(* The address create selects (Spec) *)

\* C29: after the address poll accepted a descriptor and the tag was set, create
\* does not fail for want of the address field it selects: it goes on from the
\* address selection for every ssh_interface.
SelectedAddressPresent ==
    (pc = "idle" /\ last.op = "create" /\ loc.phase = "tagged")
    => last.outcome # "KeyError"

(* The rename of destroy (Spec) *)

InRename == \E i \in 1..Len(stack) : stack[i] = "rename"

\* C20: when destroy has found the instance unprotected and rename_on_destroy
\* configured true, every TerminateInstances call comes after a CreateTags call
\* that sets Name to the name marked -DEL, and a destroy that ends inside the
\* rename has issued no TerminateInstances call.
RenameBeforeTerminate ==
    /\ [](loc.rename_on_destroy = "true" =>
            /\ loc.protected # "true"
            /\ \A t \in CallsOf("TerminateInstances", calls) :
                 \E c \in CallsOf("CreateTags", calls) : c < t /\ calls[c].arg = DelName)
    /\ [][(InRename /\ pc' = "idle") =>
            /\ last'.outcome \notin {"ok", "running"}
            /\ CallsOf("TerminateInstances", calls') = {}]_vars

\* a destroy with rename_on_destroy has renamed and then terminated the instance
RenameBeforeTerminateWitness ==
    /\ pc = "idle" /\ last.op = "destroy" /\ last.outcome = "ok"
    /\ loc.rename_on_destroy = "true"
    /\ CallsOf("CreateTags", calls) # {} /\ CallsOf("TerminateInstances", calls) # {}

\* a destroy with rename_on_destroy has ended in the rename, which failed to
\* set the tag
RenameFailedWitness ==
    /\ pc = "idle" /\ last.op = "destroy" /\ last.outcome = "SaltCloudSystemExit"
    /\ loc.rename_on_destroy = "true" /\ CallsOf("CreateTags", calls) # {}

(* Name resolution: _get_vpcname, _deref_securitygroupname, _deref_subnetname *)

\* an exception in the place of a decoded value
Bad(e) == [k |-> "exc", v |-> e]

\* v[key] for a string key
Sub(v, key) ==
    IF v.k = "exc" THEN v
    ELSE IF v.k = "map" THEN (IF key \in DOMAIN v.m THEN v.m[key] ELSE Bad("KeyError"))
    ELSE Bad("TypeError")

\* data[1] for what query returned
Second(res) ==
    IF res.kind = "raise" THEN Bad(res.exc)
    ELSE IF res.kind = "mapping" THEN Bad("KeyError")
    ELSE IF Len(res.items) < 2 THEN Bad("IndexError")
    ELSE res.items[2]

\* the describe_* functions called with their keys: query(params, return_root=True)
Describe(ans) ==
    Query([status |-> ans.status, body |-> ans.body, setname |-> NoSet,
           return_url |-> FALSE, return_root |-> TRUE, url |-> "https://ec2/?Signature=s1"])

RECURSIVE NameOf(_, _)
\* lines 756-758: the first tag of the list whose key is Name
NameOf(tags, i) ==
    IF i > Len(tags) THEN Leaf("None")
    ELSE LET key == Sub(Sub(tags[i], "item"), "key") IN
         IF key.k = "exc" THEN key
         ELSE IF key = Leaf("Name") THEN Sub(Sub(tags[i], "item"), "value")
         ELSE NameOf(tags, i + 1)

\* _get_vpcname, lines 750-759
GetVpcname(vpc_data) ==
    LET tags == Sub(Sub(Second(vpc_data), "item"), "tagSet") IN
    IF tags.k = "exc" THEN tags
    ELSE IF tags.k # "list"
    THEN LET key == Sub(Sub(tags, "item"), "key") IN
         IF key.k = "exc" THEN key
         ELSE IF key = Leaf("Name") THEN Sub(Sub(tags, "item"), "value")
         ELSE Leaf("None")
    ELSE NameOf(tags.items, 1)

\* variant of Resolve: the resolver returns None for a name that is not found
ResolveOrNone(data, idkey) ==
    LET set == Second(data) IN
    IF set.k = "exc" THEN Exc(set.v)
    ELSE IF set.k = "map" /\ "item" \in DOMAIN set.m
    THEN LET id == Sub(Sub(set, "item"), idkey) IN
         IF id.k = "exc" THEN Exc(id.v) ELSE Ret(id.v)
    ELSE Ret("None")

\* lines 740-746 and 792-798: the id of the item found, or SaltCloudException
Resolve(data, idkey) ==
    LET set == Second(data) IN
    IF set.k = "exc" THEN Exc(set.v)
    ELSE IF set.k = "map" /\ "item" \in DOMAIN set.m
    THEN LET id == Sub(Sub(set, "item"), idkey) IN
         IF id.k = "exc" THEN Exc(id.v) ELSE Ret(id.v)
    ELSE Exc("SaltCloudException")

\* _deref_securitygroupname, lines 782-798
DerefSecuritygroupname(vpcid, vpc, sg) ==
    LET vpcname == GetVpcname(Describe(vpc)) IN
    IF vpcname.k = "exc" THEN Exc(vpcname.v)
    ELSE Resolve(Describe(sg), "groupId")

\* _deref_subnetname, lines 730-748
DerefSubnetname(vpcid, vpc, subnet) ==
    LET vpcname == GetVpcname(Describe(vpc)) IN
    IF vpcname.k = "exc" THEN Exc(vpcname.v)
    ELSE IF vpcid = "None" THEN Ret("None")
    ELSE Resolve(Describe(subnet), "subnetId")

\* the provider's descriptions of a VPC with the tags given
VpcBody(tags) ==
    El("DescribeVpcsResponse", "",
       <<El("requestId", "q-1", <<>>),
         El("vpcSet", "", <<El("item", "", <<El("vpcId", "vpc-1", <<>>),
                                              El("tagSet", "", tags)>>)>>)>>)

\* the provider's description of the n groups or subnets a name matches
FoundBody(setname, idkey, n) ==
    El("DescribeResponse", "",
       <<El("requestId", "q-1", <<>>),
         El(setname, "", [i \in 1..n |-> El("item", "", <<El(idkey, "id-" \o ToString(i), <<>>),
                                                           El("vpcId", "vpc-1", <<>>)>>)])>>)

Answer(status, body) == [status |-> status, body |-> body]

VpcAnswers ==
    {Answer("2xx", VpcBody(<<>>)),
     Answer("2xx", VpcBody(<<TagItem("Name", "prod")>>)),
     Answer("2xx", VpcBody(<<TagItem("role", "web")>>)),
     Answer("2xx", VpcBody(<<TagItem("Name", "prod"), TagItem("role", "web")>>)),
     Answer("non2xx", ErrorBody), Answer("unreachable", ErrorBody)}

MaxFound == 2

FoundAnswers(setname, idkey) ==
    {Answer("2xx", FoundBody(setname, idkey, n)) : n \in 0..MaxFound}
    \cup {Answer("non2xx", ErrorBody), Answer("unreachable", ErrorBody)}

DerefCalls ==
    [fn : {"_deref_securitygroupname"}, vpcid : {"None", "vpc-1"}, vpc : VpcAnswers,
     found : FoundAnswers("securityGroupInfo", "groupId")]
    \cup [fn : {"_deref_subnetname"}, vpcid : {"None", "vpc-1"}, vpc : VpcAnswers,
          found : FoundAnswers("subnetSet", "subnetId")]

ApplyDeref(c) ==
    IF c.fn = "_deref_securitygroupname"
    THEN DerefSecuritygroupname(c.vpcid, c.vpc, c.found)
    ELSE DerefSubnetname(c.vpcid, c.vpc, c.found)

\* the name is looked up in a configured VPC and matches nothing there
NotFound ==
    /\ fin.fn \in {"_deref_securitygroupname", "_deref_subnetname"}
    /\ fin.vpcid # "None"
    /\ fin.found.status = "2xx" /\ Len(fin.found.body.kids[2].kids) = 0

\* the description of the VPC is one the resolver reads a name from
VpcRead ==
    /\ fin.fn \in {"_deref_securitygroupname", "_deref_subnetname"}
    /\ GetVpcname(Describe(fin.vpc)).k # "exc"

\* C23: when the name looked up in a configured VPC matches two or more
\* resources, the resolver returns the id of the first match of the answer.
FirstMatchWins ==
    (/\ fin.fn \in {"_deref_securitygroupname", "_deref_subnetname"}
     /\ fout.kind # "none" /\ fin.vpcid # "None" /\ VpcRead
     /\ fin.found.status = "2xx" /\ Len(fin.found.body.kids[2].kids) >= 2)
    => fout = Ret("id-1")

MaxRepeat == 3

Labels == <<"a", "b", "c", "d", "e">>

\* the i-th child tagged item: childless with its label as text, or with the
\* label in a child
Repeated(i, deep) ==
    IF deep THEN El("item", "", <<El("id", Labels[i], <<>>), El("state", "ok", <<>>)>>)
    ELSE El("item", Labels[i], <<>>)

Unique(deep) ==
    IF deep THEN El("owner", "", <<El("id", "o-1", <<>>)>>) ELSE El("owner", "o-1", <<>>)

\* an element with k children tagged item and one child tagged owner, which
\* is the pos-th child
Tree(k, pos, deep, udeep) ==
    El("set", "",
       [i \in 1..(k + 1) |-> IF i < pos THEN Repeated(i, deep)
                             ELSE IF i = pos THEN Unique(udeep)
                             ELSE Repeated(i - 1, deep)])

DecodeCalls ==
    {c \in [fn : {"_xml_to_dict"}, k : 1..MaxRepeat, pos : 1..(MaxRepeat + 1),
            deep : BOOLEAN, udeep : BOOLEAN] : c.pos <= c.k + 1}

ApplyDecode(c) == Ret(XmlToDict(Tree(c.k, c.pos, c.deep, c.udeep)))

\* the label a decoded child carries
LabelOf(n) ==
    IF n.k = "leaf" THEN n.v
    ELSE IF "id" \in DOMAIN n.m THEN n.m["id"].v
    ELSE n.m["item"].v

\* C27: every element of the sequence made for a repeated child tag is decoded
\* as a unique child would be: a childless occurrence is its text, an
\* occurrence with children a mapping.
OccurrencesDecodedAlike ==
    (fin.fn = "_xml_to_dict" /\ fout.kind # "none" /\ fin.k >= 2) =>
        /\ fout.value.m["item"].k = "list"
        /\ \A i \in 1..Len(fout.value.m["item"].items) :
             fout.value.m["item"].items[i] =
                 IF fin.deep THEN XmlToDict(Repeated(i, TRUE)) ELSE Leaf(Labels[i])

\* C16: an element with one child tag repeated k >= 2 times and one child tag
\* occurring once decodes to a mapping in which the repeated tag maps to a
\* sequence of length k in document order and the unique tag maps to a leaf
\* or a mapping, not to a sequence.
RepeatedTagDecodesToSequence ==
    (fin.fn = "_xml_to_dict" /\ fout.kind # "none" /\ fin.k >= 2) =>
        /\ fout.kind = "return"
        /\ fout.value.k = "map"
        /\ DOMAIN fout.value.m = {"item", "owner"}
        /\ fout.value.m["item"].k = "list"
        /\ Len(fout.value.m["item"].items) = fin.k
        /\ \A i \in 1..fin.k : LabelOf(fout.value.m["item"].items[i]) = Labels[i]
        /\ fout.value.m["owner"].k \in {"leaf", "map"}

\* a tag repeated MaxRepeat times around the unique tag has been decoded
RepeatedTagDecodesToSequenceWitness ==
    /\ fin.fn = "_xml_to_dict" /\ fout.kind = "return"
    /\ fin.k = MaxRepeat /\ fin.pos = 2 /\ fin.deep /\ ~fin.udeep
    /\ Len(fout.value.m["item"].items) = MaxRepeat

(* create_ingress_rule, _parse_ip_permissions, _parse_str_parameters *)
\* A string is the sequence of its tokens: the separators ';' ',' '=' and the
\* words between them.

RECURSIVE Split(_, _)
\* s.split(sep)
Split(s, sep) ==
    IF \A i \in 1..Len(s) : s[i] # sep THEN <<s>>
    ELSE LET i == CHOOSE j \in 1..Len(s) : s[j] = sep /\ \A h \in 1..(j - 1) : s[h] # sep
         IN <<SubSeq(s, 1, i - 1)>> \o Split(SubSeq(s, i + 1, Len(s)), sep)

\* the string of a piece that holds no separator
Word(piece) == IF piece = <<>> THEN "" ELSE piece[1]

NoDict == [x \in {} |-> ""]

RECURSIVE DictOf(_, _, _)
\* dict(val.split('=') for val in vals): every val must split in two
DictOf(vals, i, d) ==
    IF i > Len(vals) THEN [ok |-> TRUE, d |-> d]
    ELSE LET pair == Split(vals[i], "=") IN
         IF Len(pair) # 2 THEN [ok |-> FALSE, d |-> NoDict]      \* ValueError
         ELSE DictOf(vals, i + 1, (Word(pair[1]) :> Word(pair[2])) @@ d)

\* _parse_str_parameters, lines 3337-3340: the list of the rules' dicts
ParseStrParameters(params) ==
    LET parts == Split(params, ";")
        dicts == [i \in 1..Len(parts) |-> DictOf(Split(parts[i], ","), 1, NoDict)]
    IN [ok |-> \A i \in 1..Len(parts) : dicts[i].ok,
        rules |-> [i \in 1..Len(parts) |-> dicts[i].d]]

\* 'IpPermissions.{0}.<name>'.format(index+1)
IpKey(i, name) == "IpPermissions." \o ToString(i) \o "." \o name

\* lines 3316-3330: the parameter a field of a rule is sent as
ParamName(field) ==
    CASE field = "protocol" -> "IpProtocol"
      [] field = "from-port" -> "FromPort"
      [] field = "to-port" -> "ToPort"
      [] field = "ip-range" -> "IpRanges.1.CidrIp"
      [] field = "group-name" -> "Groups.1.GroupName"
      [] field = "group-id" -> "Groups.1.GroupId"
      [] field = "user-id" -> "Groups.1.UserId"

SentFields ==
    {"protocol", "from-port", "to-port", "ip-range", "group-name", "group-id", "user-id"}

\* variant of RuleParams: every rule is entered as the first
RuleParamsFirst(rule, i) ==
    LET given == DOMAIN rule \cap SentFields IN
    [k \in {IpKey(1, ParamName(f)) : f \in given} |->
        rule[CHOOSE f \in given : IpKey(1, ParamName(f)) = k]]

\* lines 3316-3330: the parameters of the i-th rule, which gives protocol
RuleParams(rule, i) ==
    LET given == DOMAIN rule \cap SentFields IN
    [k \in {IpKey(i, ParamName(f)) : f \in given} |->
        rule[CHOOSE f \in given : IpKey(i, ParamName(f)) = k]]

RECURSIVE RulesFold(_, _, _)
\* lines 3314-3333: the loop over the rules
RulesFold(rules, i, params) ==
    IF i > Len(rules) THEN [ok |-> TRUE, params |-> params]
    ELSE IF "protocol" \in DOMAIN rules[i]
    THEN RulesFold(rules, i + 1, RuleParams(rules[i], i) @@ params)
    ELSE [ok |-> FALSE, params |-> params]

\* _parse_ip_permissions, lines 3301-3335, for a rules string: what it returns
\* and what it leaves in params, or the ValueError of the parser
ParseIpPermissions(hasrules, rules, params) ==
    IF ~hasrules THEN [exc |-> FALSE, ok |-> FALSE, params |-> params]
    ELSE LET parsed == ParseStrParameters(rules) IN
         IF ~parsed.ok THEN [exc |-> TRUE, ok |-> FALSE, params |-> params]
         ELSE LET r == RulesFold(parsed.rules, 1, params) IN
              [exc |-> FALSE, ok |-> r.ok, params |-> r.params]

\* create_ingress_rule, lines 3074-3102: the call ends in the request
\* query(params, return_root=True), whose parameters are the value
CreateIngressRule(call, group, hasrules, rules) ==
    IF call # "function" THEN Ret("False")
    ELSE IF group = "none" THEN Ret("False")
    ELSE LET p0 == ("Action" :> "AuthorizeSecurityGroupIngress")
                   @@ (IF group = "group-id" THEN "GroupId" :> "sg-1"
                       ELSE "GroupName" :> "web")
             r  == ParseIpPermissions(hasrules, rules, p0)
         IN IF r.exc THEN Exc("ValueError")
            ELSE IF ~r.ok THEN Ret("False")
            ELSE [kind |-> "query", value |-> r.params]

MaxRules == 2

RuleFields == <<"protocol", "from-port", "to-port", "ip-range">>

\* the value the i-th rule gives a field
FieldValue(field, i) ==
    CASE field = "protocol" -> <<"tcp", "udp", "icmp", "tcp">>[i]
      [] field = "from-port" -> <<"22", "53", "8", "80">>[i]
      [] field = "to-port" -> <<"22", "53", "0", "81">>[i]
      [] field = "ip-range" -> <<"0.0.0.0/0", "10.0.0.0/8", "10.1.0.0/16", "10.2.0.0/16">>[i]

RECURSIVE RuleString(_, _, _)
\* 'field=value,field=value' for the fields the i-th rule gives, from the j-th on
RuleString(given, i, j) ==
    IF j > Len(RuleFields) THEN <<>>
    ELSE IF RuleFields[j] \notin given THEN RuleString(given, i, j + 1)
    ELSE LET rest == RuleString(given, i, j + 1) IN
         <<RuleFields[j], "=", FieldValue(RuleFields[j], i)>>
         \o (IF rest = <<>> THEN <<>> ELSE <<",">> \o rest)

RECURSIVE RulesString(_, _)
\* the rules joined by ';', from the i-th on
RulesString(given, i) ==
    IF i > Len(given) THEN <<>>
    ELSE RuleString(given[i], i, 1)
         \o (IF i < Len(given) THEN <<";">> \o RulesString(given, i + 1) ELSE <<>>)

FieldSets == SUBSET {RuleFields[j] : j \in 1..Len(RuleFields)}

IngressCalls ==
    [fn : {"create_ingress_rule"}, call : {"function"},
     group : {"group-id", "group-name"}, hasrules : {TRUE},
     given : UNION {[1..n -> FieldSets] : n \in 1..MaxRules}]
    \cup [fn : {"create_ingress_rule"}, call : {"function", "action"},
          group : {"group-id", "group-name", "none"}, hasrules : BOOLEAN,
          given : {<<{"protocol", "from-port", "to-port", "ip-range"}>>}]

ApplyIngress(c) == CreateIngressRule(c.call, c.group, c.hasrules, RulesString(c.given, 1))

\* a create_ingress_rule call in its call mode that names a group and rules
IngressCase ==
    /\ fin.fn = "create_ingress_rule" /\ fout.kind # "none"
    /\ fin.call = "function" /\ fin.group # "none" /\ fin.hasrules

\* the request holds, besides Action and the group, for every rule the
\* parameters of the fields the rule gives, with their values, and no other
RulesFlattened ==
    /\ fout.kind = "query"
    /\ DOMAIN fout.value =
         {"Action", IF fin.group = "group-id" THEN "GroupId" ELSE "GroupName"}
         \cup {IpKey(i, ParamName(f)) : <<i, f>> \in
                 {p \in (1..Len(fin.given)) \X SentFields : p[2] \in fin.given[p[1]]}}
    /\ \A i \in 1..Len(fin.given) : \A f \in fin.given[i] :
         fout.value[IpKey(i, ParamName(f))] = FieldValue(f, i)

\* the request for rules="protocol=tcp,from-port=22,to-port=22,ip-range=0.0.0.0/0"
ScenarioFlattened ==
    fin.given = <<{"protocol", "from-port", "to-port", "ip-range"}>> =>
        /\ fout.kind = "query"
        /\ [k \in DOMAIN fout.value \ {"Action", "GroupId", "GroupName"} |-> fout.value[k]]
             = [k \in {"IpPermissions.1.IpProtocol", "IpPermissions.1.FromPort",
                       "IpPermissions.1.ToPort", "IpPermissions.1.IpRanges.1.CidrIp"} |->
                  CASE k = "IpPermissions.1.IpProtocol" -> "tcp"
                    [] k = "IpPermissions.1.FromPort" -> "22"
                    [] k = "IpPermissions.1.ToPort" -> "22"
                    [] k = "IpPermissions.1.IpRanges.1.CidrIp" -> "0.0.0.0/0"]

\* C18: create_ingress_rule with a rules string of n ';'-separated rules, each
\* of which gives protocol, sends for the i-th rule exactly the parameters
\* IpPermissions.i.IpProtocol, .FromPort, .ToPort and .IpRanges.1.CidrIp of the
\* fields the rule gives; a rule that gives fields but no protocol makes the
\* call return False; the scenario's rule is flattened as listed.
RulesWithProtocolFlattened ==
    IngressCase =>
        /\ (\A i \in 1..Len(fin.given) : "protocol" \in fin.given[i]) => RulesFlattened
        /\ (/\ \A i \in 1..Len(fin.given) : fin.given[i] # {}
            /\ \E i \in 1..Len(fin.given) : "protocol" \notin fin.given[i])
           => fout = Ret("False")
        /\ ScenarioFlattened

\* the statement as claimed: the parameters of the fields given are sent for
\* every rule
EveryRuleFlattened ==
    (IngressCase /\ \A i \in 1..Len(fin.given) : fin.given[i] # {})
    => RulesFlattened /\ ScenarioFlattened

\* MaxRules rules have been flattened, the last one giving protocol and ip-range
RulesWithProtocolFlattenedWitness ==
    /\ IngressCase /\ Len(fin.given) = MaxRules
    /\ fin.given[1] = {"protocol", "from-port", "to-port", "ip-range"}
    /\ fin.given[MaxRules] = {"protocol", "ip-range"}
    /\ fout.kind = "query"
    /\ IpKey(MaxRules, "IpRanges.1.CidrIp") \in DOMAIN fout.value

(* The private key checks of __virtual__ and create *)

\* __virtual__, lines 133-170, for one ec2 provider entry whose private_key
\* is key
Virtual(configured, key) ==
    IF ~configured THEN Ret("False")
    ELSE IF key = "none" THEN Exc("KeyError")                    \* details['private_key']
    ELSE IF key = "missing" THEN Exc("SaltCloudException")       \* 147
    ELSE IF key \notin {"0400", "0600"} THEN Exc("SaltCloudException")  \* 159
    ELSE Ret("ec2")

KeyCalls ==
    [fn : {"create"}, call : {"none", "action", "function"}, key : KeyFiles,
     configured : {TRUE}]
    \cup [fn : {"__virtual__"}, call : {"none"}, key : KeyFiles, configured : BOOLEAN]

\* create up to the launch call, which is the first it issues
ApplyKey(c) ==
    IF c.fn = "__virtual__" THEN Virtual(c.configured, c.key)
    ELSE IF CreateValidate(c.call, c.key) # "ok" THEN Exc(CreateValidate(c.call, c.key))
    ELSE Queries("RunInstances")

\* C19: create rejects with a configuration error, before it issues a provider
\* call, a private key file that does not exist or whose permission mode is
\* neither 0400 nor 0600.
BadKeyRejectedByCreate ==
    (/\ fin.fn = "create" /\ fout.kind # "none" /\ fin.call = "none"
     /\ fin.key \notin {"none", "0400", "0600"})
    => fout = Exc("SaltCloudConfigError")

(* _get_vpcname on the descriptions of VPCs with any tags *)

MaxTags == 2

TagValue(key) == IF key = "Name" THEN "prod" ELSE "web"

\* the calls of _get_vpcname: keys holds the keys of the VPC's tags in order
VpcnameCalls ==
    [fn : {"_get_vpcname"}, keys : UNION {[1..n -> {"Name", "role"}] : n \in 0..MaxTags}]

ApplyVpcname(c) ==
    LET tags == [i \in 1..Len(c.keys) |-> TagItem(c.keys[i], TagValue(c.keys[i]))]
        name == GetVpcname(Describe(Answer("2xx", VpcBody(tags))))
    IN IF name.k = "exc" THEN Exc(name.v) ELSE Ret(name.v)

\* C22: _get_vpcname returns the value of the VPC's tag with key Name whenever
\* there is one, for a VPC with one tag and for a VPC with two or more.
VpcNameFound ==
    (/\ fin.fn = "_get_vpcname" /\ fout.kind # "none"
     /\ \E i \in 1..Len(fin.keys) : fin.keys[i] = "Name")
    => fout = Ret("prod")

(* query, lines 244-353: the request side.  Mappings are objects of a heap:
   "caller" is the mapping the caller passes, "copy" the one line 259 makes. *)

\* params[k] = v on the object ref
SetItem(h, ref, k, v) == [h EXCEPT ![ref] = (k :> v) @@ @]

\* variant of ParamsCopy: query goes on with the caller's mapping itself
ParamsAliased(h, ref) == [ref |-> ref, heap |-> h]

\* line 259: params = params.copy()
ParamsCopy(h, ref) == [ref |-> "copy", heap |-> [h EXCEPT !["copy"] = h[ref]]]

\* lines 261-291: Version and SignatureVersion for the endpoint_provider
VersionOf(ep) ==
    CASE ep = "elb" -> "2012-06-01"
      [] ep = "redshift" -> "2012-12-01"
      [] ep = "iam" -> "2010-05-08"
      [] OTHER -> "2014-10-01"

SignatureVersionOf(ep) == IF ep = "redshift" THEN "4" ELSE "2"

\* lines 255-353: the heap after query has built the request URL; with a
\* requesturl given nothing is built, and an unknown endpoint_provider leaves
\* endpoint unbound, which the signing raises on
QueryRequest(h, given, ep) ==
    IF given THEN [kind |-> "query", value |-> h]
    ELSE LET c  == ParamsCopy(h, "caller")
             h1 == SetItem(SetItem(c.heap, c.ref, "Version", VersionOf(ep)),
                           c.ref, "SignatureVersion", SignatureVersionOf(ep))
             h2 == SetItem(SetItem(SetItem(h1, c.ref, "AWSAccessKeyId", "id"),
                                   c.ref, "SignatureMethod", "HmacSHA256"),
                           c.ref, "Timestamp", "t")
         IN IF SignatureVersionOf(ep) = "4" THEN [kind |-> "query", value |-> h1]
            ELSE IF ep \notin {"ec2", "elb", "iam"}
            THEN [kind |-> "raise", value |-> h2]          \* UnboundLocalError, 345
            ELSE [kind |-> "query", value |-> SetItem(h2, c.ref, "Signature", "sig")]

\* the mapping a caller passes: any of these entries
CallerEntry(k) ==
    CASE k = "Action" -> "DescribeInstances"
      [] k = "InstanceId.1" -> "i-1"
      [] k = "Version" -> "2013-02-01"
      [] k = "Signature" -> "old"

RequestCalls ==
    [fn : {"query"}, keys : SUBSET {"Action", "InstanceId.1", "Version", "Signature"},
     given : BOOLEAN, ep : {"ec2", "elb", "redshift", "iam", "other"}]

CallerParams(keys) == [k \in keys |-> CallerEntry(k)]

ApplyRequest(c) ==
    QueryRequest([o \in {"caller", "copy"} |->
                     IF o = "caller" THEN CallerParams(c.keys) ELSE NoDict],
                 c.given, c.ep)

\* C30: after a call of query the mapping the caller passed holds exactly the
\* keys and values it held before.
CallerParamsUnchanged ==
    (fin.fn = "query" /\ fout.kind # "none")
    => fout.value["caller"] = CallerParams(fin.keys)

\* query has signed a request for a mapping without Version and Signature: the
\* entries are in the mapping it sends, not in the caller's
CallerParamsUnchangedWitness ==
    /\ fin.fn = "query" /\ fout.kind = "query" /\ ~fin.given /\ fin.ep = "ec2"
    /\ fin.keys = {"Action", "InstanceId.1"}
    /\ {"Version", "Timestamp", "Signature"} \subseteq DOMAIN fout.value["copy"]
    /\ DOMAIN fout.value["caller"] = {"Action", "InstanceId.1"}

(* The specification of single calls *)

Apply(c) ==
    IF c.fn = "_xml_to_dict" THEN ApplyDecode(c)
    ELSE IF c.fn = "query" THEN ApplyRequest(c)
    ELSE IF c.fn = "_get_vpcname" THEN ApplyVpcname(c)
    ELSE IF c.fn \in {"create", "__virtual__"} THEN ApplyKey(c)
    ELSE IF c.fn = "create_ingress_rule" THEN ApplyIngress(c)
    ELSE IF c.fn \in {"_deref_securitygroupname", "_deref_subnetname"} THEN ApplyDeref(c)
    ELSE ApplyChecked(c)

InitCall ==
    /\ pc = "idle"
    /\ stack = <<>>
    /\ opts = NoOpts
    /\ loc = NoLoc
    /\ insts = [i \in Ids |-> NoInst]
    /\ calls = <<>>
    /\ last = [op |-> "none", outcome |-> "none"]
    /\ prev = NoPrev
    /\ faults = NoFaults
    /\ qin = NoQ
    /\ qout = NoResult
    /\ \/ fin \in CheckedCalls
       \/ fin \in DerefCalls
       \/ fin \in DecodeCalls
       \/ fin \in IngressCalls
       \/ fin \in KeyCalls
       \/ fin \in VpcnameCalls
       \/ fin \in RequestCalls
    /\ fout = NoOut

\* the function is called and returns, raises or issues its provider call
CallStep ==
    /\ fout.kind = "none"
    /\ fout' = Apply(fin)
    /\ UNCHANGED <<pc, stack, opts, loc, insts, calls, last, prev, faults, qin, qout, fin>>

NextCall == CallStep

SpecCall == InitCall /\ [][NextCall]_vars


\* C24: for a successful response whose root has n >= 0 children, query called
\* with return_root and without a setname returns the list of the n decoded
\* children in document order.
RawRootReturnsAllChildren ==
    (/\ qout.kind # "none" /\ qin.status = "2xx" /\ qin.return_root
     /\ qin.setname = NoSet)
    => /\ qout.kind = "list"
       /\ Len(qout.items) = Len(qin.body.kids)
       /\ \A i \in 1..Len(qin.body.kids) : qout.items[i] = XmlToDict(qin.body.kids[i])

============================================================================
